---- MODULE Spec2Model ----
(***************************************************************************)
(* Model of the LambdaMOO server lifecycle manager, lib/moo_server.py:     *)
(* MooServer.start / stop / stop_all and the server processes, log files   *)
(* and ports they act on.                                                  *)
(*                                                                         *)
(* A manager is single-threaded: it is either idle or inside one API call, *)
(* at the position pc[m].  Blocking points of the code (the log poll, the  *)
(* connect poll, Popen.wait, the output-file poll) are separate steps, so  *)
(* that the server processes and the other managers of the host interleave *)
(* with them.                                                              *)
(*                                                                         *)
(* Environment: the operating system gives every spawned process a pid     *)
(* that no other instance of the run holds (pid = instance number), hands  *)
(* out a free port when port 0 is requested, and a process that received   *)
(* SIGKILL exits.  A process may ignore SIGTERM, and may exit on its own   *)
(* at any time.  The server appends to its log file.                       *)
(***************************************************************************)
EXTENDS Integers, Sequences, FiniteSets, TLC

\* ----------------------------------------------------------------- bounds
NumManagers == 1        \* MooServer objects on the host
MaxInst == 2            \* server processes spawned in one run
NumPorts == 2           \* ports of the host
NumWorkDirs == 1        \* directories a caller passes as work_dir
MaxPolls == 1           \* sleeps of a readiness loop before its timeout
NumValues == 2          \* values a test writes to the property P
MaxPieces == 3          \* pieces of server output unread or held by a call
MaxCloses == 2          \* close() calls counted after a connect()

\* ------------------------------------------------------ program constants
PollLimit == 10         \* for _ in range(10) in stop()

Managers == 1..NumManagers
Insts == 1..MaxInst
Ports == 1..NumPorts
ExplicitPorts == {1}    \* port numbers a caller passes as port=
NoInst == 0             \* no instance: the manager is in no call
NoPort == 0             \* port 0: "let the OS choose", and "no port yet"
NoDir == <<"none", 0, 0>>
NoPath == <<NoDir, "">>          \* history: no value returned yet
NonePath == <<NoDir, "None">>    \* Python's None where a path is expected
Values == 1..NumValues
SeedValue == 0          \* P in the database the caller passes to start()
NoVal == -1             \* no value: no checkpoint yet, nothing loaded

\* work_dir given by the caller / self.work_dir / "instance_<n>"
ExplicitDirs == {<<"work_dir", 0, k>> : k \in 1..NumWorkDirs}
DefaultDirs == {<<"instance", m, c>> : m \in Managers, c \in 1..MaxInst}
Dirs == ExplicitDirs \cup DefaultDirs

VARIABLES
    \* --- MooServer
    registry,       \* self._instances, per manager: sequence of instances
    counter,        \* self._instance_counter
    pc,             \* position of the manager's current call
    frame,          \* who called stop(): "caller", "start" or "stop_all"
    cur,            \* the instance the current call works on
    pending,        \* stop_all: the rest of list(self._instances)
    snap,           \* stop_all: the instances registered when it was called
    polls,          \* iterations done in the current polling loop
    \* --- MooServerInstance
    owner,          \* the manager that created the instance (its config)
    dir,            \* instance.work_dir
    reqPort,        \* -p argument of the process
    port,           \* instance.port
    \* --- operating system
    proc,           \* "none", "spawned", "listening", "exited"
    bound,          \* port the process is bound to
    sigs,           \* signals sent to the process, in order
    logListen,      \* per directory: port of the first "now listening" line
    logInUse,       \* per directory: log holds "Address already in use"
    outExists,      \* per directory: output.db exists
    outVal,         \* per directory: P in output.db
    mem,            \* per process: P in the server's memory
    \* --- history
    outcome,        \* of start(): "none", "returned", "raised"
    firstRet,       \* value the first completed stop(i) returned
    lastRet,        \* value the latest stop(i) after the first returned
    everReg,        \* the instance was in a registry at some time
    loaded,         \* P in the database the instance was started on
    source,         \* the instance whose output database that was
    ckpt,           \* P at the last checkpoint the server completed
    clean,          \* a checkpoint() followed the last write
    emergency,      \* outcome of the latest start(emergency_mode=True)
    \* --- MooClient and its connection
    trace,          \* self._trace
    sock,           \* self._socket: "none" or "set"
    connected,      \* self._connected
    cpc,            \* position of the client's current call
    call,           \* the call the client is in, or was in last
    acc,            \* eval: lines, the lines read so far
    buf,            \* _read_available: data, the chunks read so far
    res,            \* outcome of the last call: <<kind, success, text>>
    wire,           \* the last payload written to the socket
    sends,          \* sendall calls of the current call
    slept,          \* checkpoint: the call went through time.sleep(0.5)
    peer,           \* the server's end: "none", "open", "closed", "reset"
    inbox,          \* what the server has sent and the client not yet read
    held,           \* pieces of it the current call has read and keeps
    \* --- history
    fault,          \* a read of the current call met end-of-stream or a reset
    closes,         \* close() calls since the last connect(), capped
    stale,          \* pieces that were unread when the request was written
    acc0,           \* lines of the same client with tracing off
    res0            \* its outcome

vars == <<registry, counter, pc, frame, cur, pending, snap, polls, owner, dir,
          reqPort, port, proc, bound, sigs, logListen, logInUse, outExists,
          outcome, firstRet, lastRet, everReg, outVal, mem, loaded, source,
          ckpt, clean, trace, sock, connected, cpc, call, acc, buf, res, wire,
          sends, slept, peer, inbox, held, fault, closes, acc0, res0, emergency,
          stale>>

mgrVars == <<registry, counter, pc, frame, cur, pending, snap, polls>>
instVars == <<owner, dir, reqPort, port>>
osVars == <<proc, bound, sigs, logListen, logInUse, outExists>>
histVars == <<outcome, firstRet, lastRet, everReg>>
dataVars == <<outVal, mem, loaded, source, ckpt, clean>>
cliVars == <<trace, sock, connected, cpc, call, acc, buf, res, wire, sends, slept,
             peer, inbox, held, fault, closes, acc0, res0, stale>>
srvVars == <<mgrVars, instVars, osVars, histVars, dataVars, emergency>>

\* ------------------------------------------------------------------ paths
InputDb(d) == <<d, "input.db">>
OutputDb(d) == <<d, "output.db">>

\* instance_dir = work_dir or (self.work_dir / f"instance_{counter}")
InstanceDir(m, wd, c) == IF wd # NoDir THEN wd ELSE <<"instance", m, c>>

\* ---------------------------------------------------------------- helpers
SeqToSet(s) == {s[k] : k \in DOMAIN s}

\* The dataclass fields of ServerInstance; its generated __eq__ compares them.
Fields(i) == <<owner[i], port[i], InputDb(dir[i]), OutputDb(dir[i]), dir[i], i>>

InstEq(i, j) == Fields(i) = Fields(j)

\* instance in self._instances
Contains(reg, i) == \E k \in DOMAIN reg : InstEq(reg[k], i)

RemoveAt(s, k) == [j \in 1..(Len(s) - 1) |-> IF j < k THEN s[j] ELSE s[j + 1]]

RemoveHeadAlways(reg, i) == IF reg = <<>> THEN reg ELSE Tail(reg)

KeepRegistered(reg, i) == reg

\* if instance in self._instances: self._instances.remove(instance)
RemoveInstance(reg, i) ==
    IF Contains(reg, i)
    THEN RemoveAt(reg, CHOOSE k \in DOMAIN reg :
                          /\ InstEq(reg[k], i)
                          /\ \A j \in 1..(k - 1) : ~InstEq(reg[j], i))
    ELSE reg

PollNeverNone(i) == TRUE

\* instance.process.poll() is not None
AlreadyExited(i) == proc[i] = "exited"

Running(i) == proc[i] \in {"spawned", "listening"}

\* Ports no running process is bound to.
FreePorts == Ports \ {bound[i] : i \in Insts}

\* One pass of the loop body of _wait_for_listen_port: the port of the first
\* listening line, -1 for a bind error, 0 for "sleep and look again".
ReadLog(d) ==
    IF logListen[d] # NoPort THEN logListen[d]
    ELSE IF logInUse[d] THEN -1
    ELSE 0

AlwaysReady(p) == TRUE

\* sock.connect_ex(('localhost', port)) == 0
ConnectOk(p) == \E j \in Insts : proc[j] = "listening" /\ bound[j] = p

RegisterAlways(reg, i, ready) == Append(reg, i)

\* self._instances.append(instance), reached only when _wait_for_ready is true
RegisterOnReady(reg, i, ready) == IF ready THEN Append(reg, i) ELSE reg

EveryOther(reg) == [k \in 1..((Len(reg) + 1) \div 2) |-> reg[2 * k - 1]]

\* list(self._instances): the copy stop_all iterates over
Snapshot(reg) == reg

KillFirst == "KILL"

\* process.terminate(): the first signal of a shutdown
FirstSignal == "TERM"

\* process.kill(): the signal after the wait timed out
SecondSignal == "KILL"

ReturnInputDb(i) == InputDb(dir[i])

\* return instance.output_db
StopResult(i) == OutputDb(dir[i])

ResultIfFound(i, found) == IF found THEN OutputDb(dir[i]) ELSE NonePath

\* the return inside the loop and the return after it
PollResult(i, found) == OutputDb(dir[i])

NeverTimesOut(where) == FALSE

\* process.wait(timeout=2.0) in start(), process.wait(timeout=timeout) in
\* stop(): the wait gives up on a process that is still running.
WaitHasTimeout(where) == TRUE

NeverEscalates(where) == FALSE

\* except subprocess.TimeoutExpired: process.kill(); process.wait()
Escalates(where) == TRUE

\* Popen.send_signal polls first and sends nothing to a reaped process.
Send(i, sig) == [sigs EXCEPT ![i] = IF Running(i) THEN Append(@, sig) ELSE @]

StopPcs == {"stop_begin", "stop_wait", "stop_kill_wait", "stop_poll"}

\* The server's reaction to SIGTERM: it writes its state to the output
\* database before it exits ("server writes DB on SIGTERM").
FlushOnTerm(state, old) == state

\* database.exists(), for the paths of an instance directory.
FileExists(path) ==
    IF path[2] = "output.db" THEN outExists[path[1]]
    ELSE IF path[2] = "input.db" THEN \E k \in Insts : dir[k] = path[1]
    ELSE FALSE

\* P in the database file at path; input.db holds the latest copy made there.
FileVal(path) ==
    IF path[2] = "output.db" THEN outVal[path[1]]
    ELSE LET users == {k \in Insts : dir[k] = path[1]}
         IN loaded[CHOOSE k \in users : \A l \in users : l <= k]

\* The database a test starts its reader on: the path stop() returned, or
\* instance.output_db when it stopped the process itself.
DbOf(j) == IF firstRet[j] # NoPath THEN firstRet[j] ELSE OutputDb(dir[j])

CopySeed(content) == SeedValue

\* shutil.copy(database, input_db): the new server loads what the file holds.
CopyDatabase(content) == content

\* ------------------------------------------------------------------- Init
NoResult == <<"none", FALSE, <<>>>>

\* MooClient.__init__: no socket, not connected, an empty transcript.
ClientFresh ==
    /\ sock = "none"
    /\ connected = FALSE
    /\ cpc = "idle"
    /\ call = "none"
    /\ acc = <<>>
    /\ buf = <<>>
    /\ res = NoResult
    /\ wire = <<>>
    /\ sends = 0
    /\ slept = FALSE
    /\ peer = "none"
    /\ inbox = <<>>
    /\ held = 0
    /\ stale = 0
    /\ fault = FALSE
    /\ closes = 0
    /\ acc0 = <<>>
    /\ res0 = NoResult

\* MooServer.__init__, before any start().
ServerInit ==
    /\ registry = [m \in Managers |-> <<>>]
    /\ counter = [m \in Managers |-> 0]
    /\ pc = [m \in Managers |-> "idle"]
    /\ frame = [m \in Managers |-> "none"]
    /\ cur = [m \in Managers |-> NoInst]
    /\ pending = [m \in Managers |-> <<>>]
    /\ snap = [m \in Managers |-> {}]
    /\ polls = [m \in Managers |-> 0]
    /\ owner = [i \in Insts |-> 0]
    /\ dir = [i \in Insts |-> NoDir]
    /\ reqPort = [i \in Insts |-> NoPort]
    /\ port = [i \in Insts |-> NoPort]
    /\ proc = [i \in Insts |-> "none"]
    /\ bound = [i \in Insts |-> NoPort]
    /\ sigs = [i \in Insts |-> <<>>]
    /\ logListen = [d \in Dirs |-> NoPort]
    /\ logInUse = [d \in Dirs |-> FALSE]
    /\ outExists = [d \in Dirs |-> FALSE]
    /\ outcome = [i \in Insts |-> "none"]
    /\ firstRet = [i \in Insts |-> NoPath]
    /\ lastRet = [i \in Insts |-> NoPath]
    /\ everReg = [i \in Insts |-> FALSE]
    /\ outVal = [d \in Dirs |-> NoVal]
    /\ mem = [i \in Insts |-> NoVal]
    /\ loaded = [i \in Insts |-> NoVal]
    /\ source = [i \in Insts |-> NoInst]
    /\ ckpt = [i \in Insts |-> NoVal]
    /\ clean = [i \in Insts |-> FALSE]
    /\ emergency = [m \in Managers |-> "none"]

Init ==
    /\ ServerInit
    /\ ClientFresh
    /\ trace = FALSE

\* ------------------------------------------------------- server processes
\* The process binds its port and logs "now listening on port N".
ProcBind(i) ==
    /\ proc[i] = "spawned"
    /\ \E p \in FreePorts :
        /\ reqPort[i] \in {NoPort, p}
        /\ bound' = [bound EXCEPT ![i] = p]
        /\ logListen' = [logListen EXCEPT ![dir[i]] = IF @ = NoPort THEN p ELSE @]
    /\ proc' = [proc EXCEPT ![i] = "listening"]
    /\ UNCHANGED <<mgrVars, instVars, histVars, sigs, logInUse, outExists>>
    /\ UNCHANGED <<dataVars, cliVars, emergency>>

\* The bind fails: the process logs "Address already in use" and exits.
ProcBindFail(i) ==
    /\ proc[i] = "spawned"
    /\ IF reqPort[i] = NoPort THEN FreePorts = {} ELSE reqPort[i] \notin FreePorts
    /\ logInUse' = [logInUse EXCEPT ![dir[i]] = TRUE]
    /\ proc' = [proc EXCEPT ![i] = "exited"]
    /\ bound' = [bound EXCEPT ![i] = NoPort]
    /\ UNCHANGED <<mgrVars, instVars, histVars, sigs, logListen, outExists>>
    /\ UNCHANGED <<dataVars, cliVars, emergency>>

\* The process exits on its own at any time: shutdown() with a dump, a crash
\* or a kill from outside the manager without.
ProcExit(i) ==
    /\ Running(i)
    /\ proc' = [proc EXCEPT ![i] = "exited"]
    /\ \E dump \in BOOLEAN :
        /\ outExists' = [outExists EXCEPT ![dir[i]] = @ \/ dump]
        /\ outVal' = [outVal EXCEPT ![dir[i]] = IF dump THEN mem[i] ELSE @]
    /\ bound' = [bound EXCEPT ![i] = NoPort]
    /\ UNCHANGED <<mgrVars, instVars, histVars, sigs, logListen, logInUse>>
    /\ UNCHANGED <<mem, loaded, source, ckpt, clean, cliVars, emergency>>

\* SIGTERM: the process writes its output database and exits.
ProcTermExit(i) ==
    /\ Running(i)
    /\ sigs[i] = <<"TERM">>
    /\ proc' = [proc EXCEPT ![i] = "exited"]
    /\ outExists' = [outExists EXCEPT ![dir[i]] = TRUE]
    /\ outVal' = [outVal EXCEPT ![dir[i]] = FlushOnTerm(mem[i], @)]
    /\ bound' = [bound EXCEPT ![i] = NoPort]
    /\ UNCHANGED <<mgrVars, instVars, histVars, sigs, logListen, logInUse>>
    /\ UNCHANGED <<mem, loaded, source, ckpt, clean, cliVars, emergency>>

\* SIGKILL: the process exits without writing anything.
ProcKillExit(i) ==
    /\ Running(i)
    /\ \E k \in DOMAIN sigs[i] : sigs[i][k] = "KILL"
    /\ proc' = [proc EXCEPT ![i] = "exited"]
    /\ bound' = [bound EXCEPT ![i] = NoPort]
    /\ UNCHANGED <<mgrVars, instVars, histVars, sigs, logListen, logInUse, outExists>>
    /\ UNCHANGED <<dataVars, cliVars, emergency>>

\* ------------------------------------------------------------------ start
NextInst == CHOOSE i \in Insts : proc[i] = "none" /\ \A j \in 1..(i - 1) : proc[j] # "none"

\* start(database, port, work_dir) from the copy of the database up to and
\* including subprocess.Popen; v is P in the database, j the instance whose
\* output database it is (NoInst for the caller's own database).
Launch(m, rp, wd, v, j) ==
    /\ pc[m] = "idle"
    /\ \E i \in Insts : proc[i] = "none"
    /\ LET i == NextInst
           c == counter[m] + 1
       IN /\ counter' = [counter EXCEPT ![m] = c]
          /\ owner' = [owner EXCEPT ![i] = m]
          /\ dir' = [dir EXCEPT ![i] = InstanceDir(m, wd, c)]
          /\ reqPort' = [reqPort EXCEPT ![i] = rp]
          /\ proc' = [proc EXCEPT ![i] = "spawned"]
          /\ cur' = [cur EXCEPT ![m] = i]
          /\ loaded' = [loaded EXCEPT ![i] = CopyDatabase(v)]
          /\ mem' = [mem EXCEPT ![i] = CopyDatabase(v)]
          /\ source' = [source EXCEPT ![i] = j]
    /\ pc' = [pc EXCEPT ![m] = "wait_listen"]
    /\ frame' = [frame EXCEPT ![m] = "start"]
    /\ UNCHANGED <<registry, pending, snap, polls, port, bound, sigs, logListen,
                   logInUse, outExists, histVars, outVal, ckpt, clean, cliVars, emergency>>

\* start(database, port, work_dir) on the database the caller brings.
Start(m, rp, wd) ==
    /\ pc[m] = "idle"
    /\ Launch(m, rp, wd, SeedValue, NoInst)

\* start(instance.output_db) with the default port and directory, on the
\* output database of an instance whose process has exited.  A path that does
\* not exist raises FileNotFoundError before anything is changed.
StartOn(m, j) ==
    /\ outcome[j] = "returned"
    /\ proc[j] = "exited"
    /\ FileExists(DbOf(j))
    /\ Launch(m, NoPort, NoDir, FileVal(DbOf(j)), j)

\* The parameters of MooServer.start, beside self.
StartParams == {"database", "port", "work_dir"}

\* start(database, emergency_mode=True): Python binds the arguments to the
\* parameters before the body runs and raises TypeError for a keyword the
\* function does not have.  Nothing is launched.
StartEmergency(m) ==
    /\ pc[m] = "idle"
    /\ emergency' = [emergency EXCEPT ![m] =
                        IF "emergency_mode" \in StartParams THEN "returned" ELSE "TypeError"]
    /\ UNCHANGED <<mgrVars, instVars, osVars, histVars, dataVars, cliVars>>

\* The current call of manager m is over.
Idle(m) ==
    /\ pc' = [pc EXCEPT ![m] = "idle"]
    /\ frame' = [frame EXCEPT ![m] = "none"]
    /\ cur' = [cur EXCEPT ![m] = NoInst]
    /\ polls' = [polls EXCEPT ![m] = 0]

\* One iteration of _wait_for_listen_port, and what start() does with None.
WaitListen(m) ==
    /\ pc[m] = "wait_listen"
    /\ LET i == cur[m]
           r == ReadLog(dir[i])
       IN IF r > 0
          THEN /\ port' = [port EXCEPT ![i] = r]
               /\ pc' = [pc EXCEPT ![m] = "wait_ready"]
               /\ polls' = [polls EXCEPT ![m] = 0]
               /\ sigs' = sigs
          ELSE IF r = 0 /\ polls[m] < MaxPolls
          THEN /\ polls' = [polls EXCEPT ![m] = @ + 1]
               /\ UNCHANGED <<port, pc, sigs>>
          ELSE \* bind error or timeout: process.terminate()
               /\ sigs' = Send(i, FirstSignal)
               /\ pc' = [pc EXCEPT ![m] = "fail_wait"]
               /\ polls' = [polls EXCEPT ![m] = 0]
               /\ port' = port
    /\ UNCHANGED <<registry, counter, frame, cur, pending, snap, owner, dir, reqPort,
                   proc, bound, logListen, logInUse, outExists, histVars>>
    /\ UNCHANGED <<dataVars, cliVars, emergency>>

\* process.wait(timeout=2.0) returned: the process has exited; raise.
FailWaitDone(m) ==
    /\ pc[m] = "fail_wait"
    /\ AlreadyExited(cur[m])
    /\ outcome' = [outcome EXCEPT ![cur[m]] = "raised"]
    /\ Idle(m)
    /\ UNCHANGED <<registry, counter, pending, snap, instVars, osVars,
                   firstRet, lastRet, everReg>>
    /\ UNCHANGED <<dataVars, cliVars, emergency>>

\* process.wait(timeout=2.0) raised TimeoutExpired: process.kill()
FailWaitTimeout(m) ==
    /\ pc[m] = "fail_wait"
    /\ ~AlreadyExited(cur[m])
    /\ WaitHasTimeout("start")
    /\ IF Escalates("start")
       THEN /\ sigs' = Send(cur[m], SecondSignal)
            /\ pc' = [pc EXCEPT ![m] = "fail_kill_wait"]
            /\ UNCHANGED <<frame, cur, polls, outcome>>
       ELSE /\ outcome' = [outcome EXCEPT ![cur[m]] = "raised"]
            /\ Idle(m)
            /\ sigs' = sigs
    /\ UNCHANGED <<registry, counter, pending, snap, instVars, proc, bound,
                   logListen, logInUse, outExists, firstRet, lastRet, everReg>>
    /\ UNCHANGED <<dataVars, cliVars, emergency>>

\* process.wait() after process.kill() returned; raise.
FailKillWait(m) ==
    /\ pc[m] = "fail_kill_wait"
    /\ AlreadyExited(cur[m])
    /\ outcome' = [outcome EXCEPT ![cur[m]] = "raised"]
    /\ Idle(m)
    /\ UNCHANGED <<registry, counter, pending, snap, instVars, osVars,
                   firstRet, lastRet, everReg>>
    /\ UNCHANGED <<dataVars, cliVars, emergency>>

\* One iteration of _wait_for_ready, and what start() does with its result.
WaitReady(m) ==
    /\ pc[m] = "wait_ready"
    /\ LET i == cur[m]
           ok == ConnectOk(port[i])
           reg == RegisterOnReady(registry[m], i, ok)
       IN IF ok
          THEN /\ registry' = [registry EXCEPT ![m] = reg]
               /\ everReg' = [everReg EXCEPT ![i] = @ \/ i \in SeqToSet(reg)]
               /\ outcome' = [outcome EXCEPT ![i] = "returned"]
               /\ Idle(m)
          ELSE IF polls[m] < MaxPolls
          THEN /\ polls' = [polls EXCEPT ![m] = @ + 1]
               /\ UNCHANGED <<registry, everReg, outcome, pc, frame, cur>>
          ELSE \* timeout: self.stop(instance)
               /\ registry' = [registry EXCEPT ![m] = reg]
               /\ everReg' = [everReg EXCEPT ![i] = @ \/ i \in SeqToSet(reg)]
               /\ pc' = [pc EXCEPT ![m] = "stop_begin"]
               /\ polls' = [polls EXCEPT ![m] = 0]
               /\ UNCHANGED <<outcome, frame, cur>>
    /\ UNCHANGED <<counter, pending, snap, instVars, osVars, firstRet, lastRet>>
    /\ UNCHANGED <<dataVars, cliVars, emergency>>

\* ------------------------------------------------------------------- stop
\* stop(instance) returns v to whoever called it: the caller, start() (which
\* then raises) or the loop of stop_all().
Return(m, v) ==
    LET i == cur[m] IN
    /\ firstRet' = [firstRet EXCEPT ![i] = IF @ = NoPath THEN v ELSE @]
    /\ lastRet' = [lastRet EXCEPT ![i] = IF firstRet[i] = NoPath THEN @ ELSE v]
    /\ outcome' = [outcome EXCEPT ![i] = IF frame[m] = "start" THEN "raised" ELSE @]
    /\ pc' = [pc EXCEPT ![m] = IF frame[m] = "stop_all" THEN "all_next" ELSE "idle"]
    /\ frame' = [frame EXCEPT ![m] = IF @ = "stop_all" THEN @ ELSE "none"]
    /\ cur' = [cur EXCEPT ![m] = NoInst]
    /\ polls' = [polls EXCEPT ![m] = 0]

\* The caller calls stop(instance) on an instance start() returned to it.
Stop(m, i) ==
    /\ pc[m] = "idle"
    /\ owner[i] = m
    /\ outcome[i] = "returned"
    /\ pc' = [pc EXCEPT ![m] = "stop_begin"]
    /\ frame' = [frame EXCEPT ![m] = "caller"]
    /\ cur' = [cur EXCEPT ![m] = i]
    /\ UNCHANGED <<registry, counter, pending, snap, polls, instVars, osVars, histVars>>
    /\ UNCHANGED <<dataVars, cliVars, emergency>>

\* stop() from its first line to the first wait: deregister, poll, and either
\* return at once or send the graceful signal.
StopBegin(m) ==
    /\ pc[m] = "stop_begin"
    /\ LET i == cur[m] IN
       /\ registry' = [registry EXCEPT ![m] = RemoveInstance(@, i)]
       /\ IF AlreadyExited(i)
          THEN /\ Return(m, StopResult(i))
               /\ sigs' = sigs
          ELSE /\ sigs' = Send(i, FirstSignal)
               /\ pc' = [pc EXCEPT ![m] = "stop_wait"]
               /\ UNCHANGED <<outcome, firstRet, lastRet, frame, cur, polls>>
    /\ UNCHANGED <<counter, pending, snap, instVars, proc, bound,
                   logListen, logInUse, outExists, everReg>>
    /\ UNCHANGED <<dataVars, cliVars, emergency>>

\* instance.process.wait(timeout=timeout) returned.
StopWaitDone(m) ==
    /\ pc[m] = "stop_wait"
    /\ AlreadyExited(cur[m])
    /\ pc' = [pc EXCEPT ![m] = "stop_poll"]
    /\ UNCHANGED <<registry, counter, frame, cur, pending, snap, polls, instVars,
                   osVars, histVars>>
    /\ UNCHANGED <<dataVars, cliVars, emergency>>

\* instance.process.wait(timeout=timeout) raised TimeoutExpired: kill().
StopWaitTimeout(m) ==
    /\ pc[m] = "stop_wait"
    /\ ~AlreadyExited(cur[m])
    /\ WaitHasTimeout("stop")
    /\ sigs' = IF Escalates("stop") THEN Send(cur[m], SecondSignal) ELSE sigs
    /\ pc' = [pc EXCEPT ![m] = IF Escalates("stop") THEN "stop_kill_wait" ELSE "stop_poll"]
    /\ UNCHANGED <<registry, counter, frame, cur, pending, snap, polls, instVars,
                   proc, bound, logListen, logInUse, outExists, histVars>>
    /\ UNCHANGED <<dataVars, cliVars, emergency>>

\* instance.process.wait() after kill() returned.
StopKillWait(m) ==
    /\ pc[m] = "stop_kill_wait"
    /\ AlreadyExited(cur[m])
    /\ pc' = [pc EXCEPT ![m] = "stop_poll"]
    /\ UNCHANGED <<registry, counter, frame, cur, pending, snap, polls, instVars,
                   osVars, histVars>>
    /\ UNCHANGED <<dataVars, cliVars, emergency>>

\* One iteration of the loop over range(10), and the return after the loop.
StopPoll(m) ==
    /\ pc[m] = "stop_poll"
    /\ LET i == cur[m]
           found == outExists[dir[i]]
       IN IF found \/ polls[m] + 1 >= PollLimit
          THEN Return(m, PollResult(i, found))
          ELSE /\ polls' = [polls EXCEPT ![m] = @ + 1]
               /\ UNCHANGED <<pc, frame, cur, outcome, firstRet, lastRet>>
    /\ UNCHANGED <<registry, counter, pending, snap, instVars, osVars, everReg>>
    /\ UNCHANGED <<dataVars, cliVars, emergency>>

\* --------------------------------------------------------------- stop_all
\* stop_all() / __exit__: take the copy of the list.
StopAll(m) ==
    /\ pc[m] = "idle"
    /\ pending' = [pending EXCEPT ![m] = Snapshot(registry[m])]
    /\ snap' = [snap EXCEPT ![m] = SeqToSet(registry[m])]
    /\ frame' = [frame EXCEPT ![m] = "stop_all"]
    /\ pc' = [pc EXCEPT ![m] = "all_next"]
    /\ UNCHANGED <<registry, counter, cur, polls, instVars, osVars, histVars>>
    /\ UNCHANGED <<dataVars, cliVars, emergency>>

\* The next iteration of the for loop of stop_all.
AllNext(m) ==
    /\ pc[m] = "all_next"
    /\ pending[m] # <<>>
    /\ cur' = [cur EXCEPT ![m] = Head(pending[m])]
    /\ pending' = [pending EXCEPT ![m] = Tail(@)]
    /\ pc' = [pc EXCEPT ![m] = "stop_begin"]
    /\ UNCHANGED <<registry, counter, frame, snap, polls, instVars, osVars, histVars>>
    /\ UNCHANGED <<dataVars, cliVars, emergency>>

\* The for loop of stop_all is over: it returns.
AllDone(m) ==
    /\ pc[m] = "all_next"
    /\ pending[m] = <<>>
    /\ snap' = [snap EXCEPT ![m] = {}]
    /\ Idle(m)
    /\ UNCHANGED <<registry, counter, pending, instVars, osVars, histVars>>
    /\ UNCHANGED <<dataVars, cliVars, emergency>>

\* ------------------------------------------------------------ persistence
\* The test thread is outside every manager call and holds a client of the
\* running instance i.
ClientOf(i) ==
    /\ outcome[i] = "returned"
    /\ proc[i] = "listening"
    /\ pc[owner[i]] = "idle"

\* client.eval('#0.P = v') answered with a success line.
Write(i, v) ==
    /\ ClientOf(i)
    /\ mem' = [mem EXCEPT ![i] = v]
    /\ clean' = [clean EXCEPT ![i] = FALSE]
    /\ UNCHANGED <<mgrVars, instVars, osVars, histVars, outVal, loaded, source, ckpt,
                   cliVars, emergency>>

BareDumpName == "dump_database"

\* What checkpoint() asks the server to evaluate.
CheckpointCommand == "dump_database()"

\* client.checkpoint() returned True: the server answered dump_database()
\* with a success line and wrote its state within the grace period.
Checkpoint(i) ==
    /\ ClientOf(i)
    /\ LET dumps == CheckpointCommand = "dump_database()" IN
       /\ outExists' = [outExists EXCEPT ![dir[i]] = @ \/ dumps]
       /\ outVal' = [outVal EXCEPT ![dir[i]] = IF dumps THEN mem[i] ELSE @]
       /\ ckpt' = [ckpt EXCEPT ![i] = IF dumps THEN mem[i] ELSE @]
    /\ clean' = [clean EXCEPT ![i] = TRUE]
    /\ UNCHANGED <<mgrVars, instVars, histVars, proc, bound, sigs, logListen,
                   logInUse, mem, loaded, source, cliVars, emergency>>

\* os.kill(pid, signal.SIGKILL) by a test, on an instance it started.
Sigkill(m, i) ==
    /\ pc[m] = "idle"
    /\ owner[i] = m
    /\ outcome[i] = "returned"
    /\ Running(i)
    /\ sigs' = Send(i, "KILL")
    /\ pc' = [pc EXCEPT ![m] = "kill_wait"]
    /\ frame' = [frame EXCEPT ![m] = "test"]
    /\ cur' = [cur EXCEPT ![m] = i]
    /\ UNCHANGED <<registry, counter, pending, snap, polls, instVars, proc, bound,
                   logListen, logInUse, outExists, histVars, dataVars, cliVars, emergency>>

\* process.wait() returned; the test takes the instance out of _instances.
SigkillWait(m) ==
    /\ pc[m] = "kill_wait"
    /\ AlreadyExited(cur[m])
    /\ registry' = [registry EXCEPT ![m] = RemoveInstance(@, cur[m])]
    /\ Idle(m)
    /\ UNCHANGED <<counter, pending, snap, instVars, osVars, histVars, dataVars,
                   cliVars, emergency>>

\* ------------------------------------------------------------------- Next
\* A step inside the call the manager is in.
MgrStep(m) ==
    \/ WaitListen(m)
    \/ FailWaitDone(m)
    \/ FailWaitTimeout(m)
    \/ FailKillWait(m)
    \/ WaitReady(m)
    \/ StopBegin(m)
    \/ StopWaitDone(m)
    \/ StopWaitTimeout(m)
    \/ StopKillWait(m)
    \/ StopPoll(m)
    \/ AllNext(m)
    \/ AllDone(m)

Next ==
    \/ \E m \in Managers, rp \in {NoPort} \cup ExplicitPorts, wd \in {NoDir} \cup ExplicitDirs :
          Start(m, rp, wd)
    \/ \E m \in Managers : StartEmergency(m)
    \/ \E m \in Managers, i \in Insts : Stop(m, i)
    \/ \E m \in Managers : StopAll(m)
    \/ \E m \in Managers : MgrStep(m)
    \/ \E i \in Insts : ProcBind(i)
    \/ \E i \in Insts : ProcBindFail(i)
    \/ \E i \in Insts : ProcExit(i)
    \/ \E i \in Insts : ProcTermExit(i)
    \/ \E i \in Insts : ProcKillExit(i)

Spec == Init /\ [][Next]_vars

\* The manager keeps running its current call; a process sent SIGKILL exits.
\* Nothing obliges a process to react to SIGTERM or to exit on its own.
Fairness ==
    /\ \A m \in Managers : WF_vars(MgrStep(m))
    /\ \A i \in Insts : WF_vars(ProcKillExit(i))

LiveSpec == Init /\ [][Next]_vars /\ Fairness

\* The write / checkpoint / stop / restart scenarios of the persistence
\* tests: every start() takes the default port and directory, the server
\* answers its clients and does not exit unless it is signalled.
PersistNext ==
    \/ \E m \in Managers : Start(m, NoPort, NoDir)
    \/ \E m \in Managers, j \in Insts : StartOn(m, j)
    \/ \E m \in Managers, i \in Insts : Stop(m, i)
    \/ \E m \in Managers : StopAll(m)
    \/ \E m \in Managers, i \in Insts : Sigkill(m, i)
    \/ \E m \in Managers : SigkillWait(m)
    \/ \E m \in Managers : MgrStep(m)
    \/ \E i \in Insts, v \in Values : Write(i, v)
    \/ \E i \in Insts : Checkpoint(i)
    \/ \E i \in Insts : ProcBind(i)
    \/ \E i \in Insts : ProcTermExit(i)
    \/ \E i \in Insts : ProcKillExit(i)

PersistSpec == Init /\ [][PersistNext]_vars

\* ================================================================ MooClient
\* Text is a sequence of tokens.  "E" stands for "(End of traceback)", "x" for
\* any character no pattern names; the other tokens are themselves.
NoResponse == <<"(no response)">>

\* \s of the patterns
IsWs(t) == t \in {" ", "\n"}

\* [#\-\d] of EVAL_SUCCESS_PATTERN, \d of EVAL_TRACEBACK_PATTERN
IsRef(t) == t \in {"#", "-", "1"}

IsDigit(t) == t = "1"

Has(text, t) == \E k \in DOMAIN text : text[k] = t

\* ^ under re.MULTILINE: the start of the text and the place after a newline
AtLineStart(text, k) == k = 1 \/ text[k - 1] = "\n"

\* Index of the last token of the line that holds position k.
Eol(text, k) ==
    LET ends == {e \in k..Len(text) : e = Len(text) \/ text[e + 1] = "\n"}
    IN CHOOSE e \in ends : \A f \in ends : e <= f

\* Index of the last token of the run of tokens satisfying the class that
\* starts at k (k - 1 when the run is empty).
RECURSIVE WsEnd(_, _)
WsEnd(text, k) ==
    IF k <= Len(text) /\ IsWs(text[k]) THEN WsEnd(text, k + 1) ELSE k - 1

RECURSIVE RefEnd(_, _)
RefEnd(text, k) ==
    IF k <= Len(text) /\ IsRef(text[k]) THEN RefEnd(text, k + 1) ELSE k - 1

RECURSIVE DigitEnd(_, _)
DigitEnd(text, k) ==
    IF k <= Len(text) /\ IsDigit(text[k]) THEN DigitEnd(text, k + 1) ELSE k - 1

\* "\s*(.+)$" / "\s+(.+)$" matched from position k with at least minWs
\* whitespace: the first index of group 1, or 0 for no match.  The greedy
\* whitespace takes the whole run; when the text ends there it gives back
\* until "." finds a character that is not a newline.
GroupStart(text, k, minWs) ==
    LET e == WsEnd(text, k)
        back == {p \in (k + minWs)..Len(text) : text[p] # "\n"}
    IN IF e - k + 1 < minWs THEN 0
       ELSE IF e < Len(text) THEN e + 1
       ELSE IF back # {} THEN CHOOSE p \in back : \A q \in back : q <= p
       ELSE 0

\* str.strip()
RECURSIVE LStrip(_)
LStrip(text) ==
    IF text # <<>> /\ IsWs(Head(text)) THEN LStrip(Tail(text)) ELSE text

RECURSIVE RStrip(_)
RStrip(text) ==
    IF text # <<>> /\ IsWs(text[Len(text)])
    THEN RStrip(SubSeq(text, 1, Len(text) - 1)) ELSE text

Strip(text) == RStrip(LStrip(text))

\* EVAL_SUCCESS_PATTERN matched at k: first index of group 1, or 0.
SuccessAt(text, k) ==
    LET r == RefEnd(text, k)
        w == WsEnd(text, r + 2)
    IN IF AtLineStart(text, k) /\ r >= k
          /\ r + 1 <= Len(text) /\ text[r + 1] = ":"
          /\ w + 1 <= Len(text) /\ text[w + 1] = "=>"
       THEN GroupStart(text, w + 2, 0)
       ELSE 0

\* EVAL_ERROR_PATTERN matched at k: first index of group 1, or 0.
ErrorAt(text, k) ==
    IF AtLineStart(text, k) /\ text[k] = "**" THEN GroupStart(text, k + 1, 1) ELSE 0

\* EVAL_TRACEBACK_PATTERN matched at k.
TracebackAt(text, k) ==
    /\ AtLineStart(text, k)
    /\ text[k] = "#"
    /\ \E c \in (k + 2)..Len(text) :
        /\ text[c] = ":"
        /\ \A t \in (k + 1)..(c - 1) : text[t] # ":"
        /\ \E l \in (c + 1)..Len(text) :
            /\ text[l] = "line"
            /\ \A t \in (c + 1)..(l - 1) : text[t] # "\n"
            /\ LET w == WsEnd(text, l + 1)
                   d == DigitEnd(text, w + 1)
               IN /\ w >= l + 1
                  /\ d >= w + 1
                  /\ d + 1 <= Len(text) /\ text[d + 1] = ":"

\* pattern.search(response): the leftmost place the pattern matches, or 0.
FirstMatch(places) ==
    IF places = {} THEN 0 ELSE CHOOSE k \in places : \A l \in places : k <= l

SearchSuccess(text) == FirstMatch({k \in DOMAIN text : SuccessAt(text, k) # 0})

SearchError(text) == FirstMatch({k \in DOMAIN text : ErrorAt(text, k) # 0})

SearchTraceback(text) == FirstMatch({k \in DOMAIN text : TracebackAt(text, k)})

\* match.group(1)
Group(text, g) == SubSeq(text, g, Eol(text, g))

ClassifyErrorFirst(response) ==
    LET s == SearchSuccess(response)
        e == SearchError(response)
    IN IF e # 0 THEN <<FALSE, Strip(Group(response, ErrorAt(response, e)))>>
       ELSE IF s # 0 THEN <<TRUE, Strip(Group(response, SuccessAt(response, s)))>>
       ELSE IF SearchTraceback(response) # 0 THEN <<FALSE, Strip(response)>>
       ELSE <<FALSE, IF Strip(response) # <<>> THEN Strip(response) ELSE NoResponse>>

\* The classification at the end of eval(): <<success, value or message>>.
Classify(response) ==
    LET s == SearchSuccess(response)
        e == SearchError(response)
    IN IF s # 0 THEN <<TRUE, Strip(Group(response, SuccessAt(response, s)))>>
       ELSE IF e # 0 THEN <<FALSE, Strip(Group(response, ErrorAt(response, e)))>>
       ELSE IF SearchTraceback(response) # 0 THEN <<FALSE, Strip(response)>>
       ELSE <<FALSE, IF Strip(response) # <<>> THEN Strip(response) ELSE NoResponse>>

\* ------------------------------------------------------------- the wire
\* What a server writes in one piece: a success line, an error line, a
\* traceback line, the closing phrase of a traceback, a brace-delimited
\* detail, and the fragments such lines are made of.
ServerPieces ==
    { <<"#", "1", ":", " ", "=>", " ", "x">>,
      <<"**", " ", "x">>,
      <<"#", "x", ":", " ", "line", " ", "1", ":">>,
      <<"E">>,
      <<"{", "x", "}">>,
      <<"**">>,
      <<" ">>,
      <<"x">>,
      <<"\n">> }

Newline == <<"\n">>

\* Expressions a caller passes to eval(), and lines it passes to send().
Exprs == { <<"x">>, <<";", "x">>, <<"x", "\n">> }

RECURSIVE Flatten(_)
Flatten(ss) == IF ss = <<>> THEN <<>> ELSE Head(ss) \o Flatten(Tail(ss))

\* if not expression.startswith(';'): expression = ';' + expression
Prefix(e) == IF e # <<>> /\ e[1] = ";" THEN e ELSE <<";">> \o e

\* if not command.endswith('\n'): command += '\n'
Terminate(c) == IF c # <<>> /\ c[Len(c)] = "\n" THEN c ELSE Append(c, "\n")


DisplayData(tr, data) ==
    IF tr THEN [k \in DOMAIN data |-> IF data[k] = "\n" THEN "\\n" ELSE data[k]]
    ELSE data

\* What _read_line and _read_available return after _log_trace has run with
\* self._trace = tr: the data as received; display_data goes to the printout.
Traced(tr, data) == data

\* Index of the first newline among the unread pieces, 0 when there is none.
FirstNewline(pieces) == FirstMatch({k \in DOMAIN pieces : pieces[k] = Newline})

\* Number of pieces _read_line takes: up to and including the first newline;
\* everything there is when a timeout or the end of the stream comes first.
LineTaken(pieces) ==
    IF FirstNewline(pieces) = 0 THEN Len(pieces) ELSE FirstNewline(pieces)

\* Asterisks a token is made of.
Stars(t) == IF t = "***" THEN 3 ELSE IF t = "**" THEN 2 ELSE 0

OnlyTraceback(line) == Has(line, "E")

\* The completion markers of the read loop of eval().
Terminates(line) ==
    \/ Has(line, "=>")
    \/ Has(line, "E")
    \/ /\ line # <<>> /\ Stars(line[1]) >= 2
       /\ Has(line, "{")
       /\ RStrip(line) # <<>> /\ RStrip(line)[Len(RStrip(line))] = "}"

\* _send and the socket under it: "ok", or the exception raised.
SendOutcome ==
    IF ~connected THEN "ConnectionError"
    ELSE IF sock = "none" THEN "AttributeError"
    ELSE IF peer = "reset" THEN "BrokenPipeError"
    ELSE "ok"

Raised(exc) == <<"raised", FALSE, <<exc>>>>

Returned(ok, text) == <<"returned", ok, text>>

\* Players a caller logs in as.
Identities == {"Wizard"}

\* response.lower()
Lower(text) == [k \in DOMAIN text |-> IF text[k] = "Connected" THEN "connected" ELSE text[k]]

\* "***" in text: three asterisks in a row, in one token or over two.
HasStars(text) ==
    \E k \in DOMAIN text :
        \/ Stars(text[k]) = 3
        \/ k < Len(text) /\ Stars(text[k]) >= 2 /\ Stars(text[k + 1]) >= 2

MarkerOnly(response) == ~HasStars(Lower(response))

\* The return value of authenticate().
AuthResult(response) ==
    ~HasStars(Lower(response)) \/ Has(Lower(response), "connected")

\* if success: time.sleep(0.5)
GraceAfter(success) == success

KeepConnected(c) == c

\* self._connected = False at the end of close()
AfterClose(c) == FALSE

\* is_connected()
IsConnected == connected /\ sock # "none"

\* --------------------------------------------------------- client actions
\* MooServer.connect / MooClient.connect up to the banner drain.  With nothing
\* listening on the port socket.connect raises.
Connect(listening) ==
    /\ cpc = "idle"
    /\ sock = "none"
    /\ call' = "connect"
    /\ sock' = "set"
    /\ connected' = listening
    /\ peer' = IF listening THEN "open" ELSE "none"
    /\ cpc' = IF listening THEN "connect_drain" ELSE "idle"
    /\ res' = IF listening THEN NoResult ELSE Raised("ConnectionRefusedError")
    /\ res0' = res'
    /\ inbox' = <<>>
    /\ held' = 0
    /\ stale' = 0
    /\ acc' = <<>> /\ acc0' = <<>> /\ buf' = <<>>
    /\ sends' = 0 /\ slept' = FALSE /\ fault' = FALSE /\ closes' = 0
    /\ UNCHANGED <<trace, wire, srvVars>>

\* One recv(4096) of the _read_available() of connect().  connect() drops
\* what it reads, so only the fact that there was a banner is kept.
ConnectDrain ==
    /\ cpc = "connect_drain"
    /\ IF inbox # <<>>
       THEN /\ inbox' = <<>>
            /\ buf' = <<"banner">>
            /\ UNCHANGED <<cpc, res, res0, fault>>
       ELSE IF peer = "reset"
       THEN /\ res' = Raised("ConnectionResetError")
            /\ res0' = res'
            /\ cpc' = "idle"
            /\ fault' = TRUE
            /\ UNCHANGED <<inbox, buf>>
       ELSE \* socket.timeout, or b'' at the end of the stream
            /\ res' = Returned(TRUE, <<>>)
            /\ res0' = res'
            /\ cpc' = "idle"
            /\ fault' = (peer = "closed")
            /\ UNCHANGED <<inbox, buf>>
    /\ UNCHANGED <<trace, sock, connected, call, acc, acc0, wire, sends, slept, peer,
                   held, closes, stale, srvVars>>

\* The start of a call that sends one command: _send(command), then on to
\* position next of the call ("idle" when the call is over at once).
BeginCall(name, command, next) ==
    /\ cpc = "idle"
    /\ call' = name
    /\ acc' = <<>> /\ acc0' = <<>> /\ buf' = <<>>
    /\ held' = 0 /\ fault' = FALSE /\ slept' = FALSE
    /\ stale' = Len(inbox)
    /\ IF SendOutcome = "ok"
       THEN /\ wire' = Terminate(command)
            /\ sends' = 1
            /\ cpc' = next
            /\ res' = IF next = "idle" THEN Returned(TRUE, <<>>) ELSE NoResult
       ELSE /\ wire' = wire
            /\ sends' = 0
            /\ cpc' = "idle"
            /\ res' = Raised(SendOutcome)
    /\ res0' = res'
    /\ UNCHANGED <<trace, sock, connected, peer, inbox, closes, srvVars>>

\* eval(expression) up to the read loop.
Eval(e) ==
    /\ e \in Exprs
    /\ BeginCall("eval", Prefix(e), "eval_read")

\* checkpoint(): self.eval('dump_database()') up to the read loop.
CheckpointCall ==
    /\ call' = "checkpoint"
    /\ BeginCall("checkpoint", Prefix(<<CheckpointCommand>>), "eval_read")

\* send(command)
SendLine(c) ==
    /\ c \in Exprs
    /\ BeginCall("send", c, "idle")

\* authenticate(identity) up to the read of the response.
Authenticate(identity) ==
    /\ identity \in Identities
    /\ BeginCall("authenticate", <<"connect", " ", identity>>, "auth_drain")

\* One recv(4096) of the _read_available() of authenticate(); at its end
\* the heuristic on the text read.
AuthDrain ==
    /\ cpc = "auth_drain"
    /\ IF inbox # <<>>
       THEN /\ inbox' = <<>>
            /\ buf' = buf \o Flatten(inbox)
            /\ held' = held + Len(inbox)
            /\ UNCHANGED <<cpc, res, res0, fault>>
       ELSE IF peer = "reset"
       THEN /\ res' = Raised("ConnectionResetError")
            /\ res0' = res'
            /\ cpc' = "idle"
            /\ fault' = TRUE
            /\ UNCHANGED <<inbox, buf, held>>
       ELSE /\ res' = Returned(AuthResult(Traced(trace, buf)), <<>>)
            /\ res0' = Returned(AuthResult(Traced(FALSE, buf)), <<>>)
            /\ cpc' = "idle"
            /\ fault' = (peer = "closed")
            /\ UNCHANGED <<inbox, buf, held>>
    /\ UNCHANGED <<trace, sock, connected, call, acc, acc0, wire, sends, slept, peer,
                   closes, stale, srvVars>>

\* One _read_line() of the loop of eval() and what the loop does with the
\* line; after the loop the classification, and in checkpoint() the sleep.
EvalRead ==
    /\ cpc = "eval_read"
    /\ IF peer = "reset"
       THEN /\ res' = Raised("ConnectionResetError")
            /\ res0' = res'
            /\ cpc' = "idle"
            /\ fault' = TRUE
            /\ UNCHANGED <<inbox, held, acc, acc0>>
       ELSE LET n == LineTaken(inbox)
                raw == Flatten(SubSeq(inbox, 1, n))
                line == Traced(trace, raw)
                line0 == Traced(FALSE, raw)
                lines == IF line = <<>> THEN acc ELSE Append(acc, line)
                lines0 == IF line0 = <<>> THEN acc0 ELSE Append(acc0, line0)
                done == line = <<>> \/ Terminates(line)
                result == Classify(Flatten(lines))
                result0 == Classify(Flatten(lines0))
                text == IF call = "eval" THEN result[2] ELSE <<>>
                text0 == IF call = "eval" THEN result0[2] ELSE <<>>
            IN /\ inbox' = SubSeq(inbox, n + 1, Len(inbox))
               /\ held' = held + n
               /\ acc' = lines
               /\ acc0' = lines0
               /\ fault' = (fault \/ (FirstNewline(inbox) = 0 /\ peer = "closed"
                                         /\ ~Terminates(line)))
               /\ IF ~done
                  THEN UNCHANGED <<cpc, res, res0>>
                  ELSE IF call = "checkpoint" /\ GraceAfter(result[1])
                  THEN /\ cpc' = "ckpt_sleep"
                       /\ UNCHANGED <<res, res0>>
                  ELSE /\ cpc' = "idle"
                       /\ res' = Returned(result[1], text)
                       /\ res0' = Returned(result0[1], text0)
    /\ UNCHANGED <<trace, sock, connected, call, buf, wire, sends, slept, peer,
                   closes, stale, srvVars>>

\* time.sleep(0.5) of checkpoint() is over; return success.
CkptSleep ==
    /\ cpc = "ckpt_sleep"
    /\ slept' = TRUE
    /\ cpc' = "idle"
    /\ res' = Returned(TRUE, <<>>)
    /\ res0' = res'
    /\ UNCHANGED <<trace, sock, connected, call, acc, acc0, buf, wire, sends,
                   peer, inbox, held, fault, closes, stale, srvVars>>

\* close(), between two calls.
Close ==
    /\ cpc = "idle"
    /\ sock' = "none"
    /\ connected' = AfterClose(connected)
    /\ peer' = IF sock = "set" THEN "none" ELSE peer
    /\ inbox' = IF sock = "set" THEN <<>> ELSE inbox
    /\ closes' = IF closes < MaxCloses THEN closes + 1 ELSE closes
    /\ UNCHANGED <<trace, cpc, call, acc, acc0, buf, res, res0, wire, sends, slept,
                   held, fault, stale, srvVars>>

\* ------------------------------------------------------- the server's end
\* The server writes a piece of output, asked for or not.
ServerSend(p) ==
    /\ peer = "open"
    /\ Len(inbox) + held < MaxPieces
    /\ inbox' = Append(inbox, p)
    /\ UNCHANGED <<trace, sock, connected, cpc, call, acc, acc0, buf, res, res0, wire,
                   sends, slept, peer, held, fault, closes, stale, srvVars>>

\* The server closes the connection, or exits: the client's reads come to
\* the end of the stream after what was sent.
ServerClose ==
    /\ peer = "open"
    /\ peer' = "closed"
    /\ UNCHANGED <<trace, sock, connected, cpc, call, acc, acc0, buf, res, res0, wire,
                   sends, slept, inbox, held, fault, closes, stale, srvVars>>

\* The connection is reset: the client's next recv raises.
ServerReset ==
    /\ peer = "open"
    /\ peer' = "reset"
    /\ inbox' = <<>>
    /\ UNCHANGED <<trace, sock, connected, cpc, call, acc, acc0, buf, res, res0, wire,
                   sends, slept, held, fault, closes, stale, srvVars>>

\* A step inside the call the client is in.
ClientStep ==
    \/ ConnectDrain
    \/ EvalRead
    \/ CkptSleep
    \/ AuthDrain

ClientNext ==
    \/ \E listening \in BOOLEAN : Connect(listening)
    \/ \E e \in Exprs : Eval(e)
    \/ CheckpointCall
    \/ \E identity \in Identities : Authenticate(identity)
    \/ \E c \in Exprs : SendLine(c)
    \/ Close
    \/ ClientStep
    \/ \E p \in ServerPieces : ServerSend(p)
    \/ ServerClose
    \/ ServerReset

ClientInit ==
    /\ ServerInit
    /\ ClientFresh
    /\ trace \in BOOLEAN

ClientSpec == ClientInit /\ [][ClientNext]_vars

\* ================================================================= claims
InRegistry(i) == \E m \in Managers : i \in SeqToSet(registry[m])

InStop(m) == pc[m] \in StopPcs

\* C1: once stop(i) has returned, a later stop(i) returns the same path as the
\* first one, sends no signal to any process of the manager and leaves the
\* manager's registry as it is.
C1_StopIdempotent ==
    [][\A m \in Managers :
         (InStop(m) /\ firstRet[cur[m]] # NoPath) =>
            /\ registry'[m] = registry[m]
            /\ \A j \in Insts : owner[j] = m => sigs'[j] = sigs[j]
            /\ lastRet'[cur[m]] \in {NoPath, firstRet[cur[m]]}]_vars

C1_Witness ==
    \E i \in Insts : lastRet[i] # NoPath /\ lastRet[i] = firstRet[i]

\* C2: an instance is registered only by a start() that returns it, after a
\* listening line gave it a port; a start() that raises never had its instance
\* in the registry, and while start() runs its instance is not registered.
C2_FailedStartNeverRegistered ==
    /\ \A i \in Insts : everReg[i] => outcome[i] = "returned" /\ port[i] # NoPort
    /\ \A i \in Insts : outcome[i] = "raised" => ~everReg[i] /\ ~InRegistry(i)
    /\ \A m \in Managers : frame[m] = "start" => ~InRegistry(cur[m])

C2_Witness ==
    \E i \in Insts : outcome[i] = "raised" /\ port[i] # NoPort /\ ~everReg[i]

\* C3: when start() has raised, the process it spawned has exited.
C3_FailedStartProcessExited ==
    \A i \in Insts : outcome[i] = "raised" => proc[i] = "exited"

C3_Witness ==
    \E i \in Insts :
        outcome[i] = "raised" /\ port[i] = NoPort /\ sigs[i] = <<"TERM", "KILL">>

\* C4: inside stop() the first signal sent to the process is SIGTERM; SIGKILL
\* follows only a SIGTERM, and only when the wait ended with the process still
\* running.
C4_TermBeforeKill ==
    [][\A m \in Managers :
         LET i == cur[m] IN
         (InStop(m) /\ sigs'[i] # sigs[i]) =>
            \/ sigs[i] = <<>> /\ sigs'[i] = <<"TERM">> /\ pc[m] = "stop_begin"
            \/ /\ sigs[i] = <<"TERM">> /\ sigs'[i] = <<"TERM", "KILL">>
               /\ pc[m] = "stop_wait"
               /\ Running(i)]_vars

C4_Witness ==
    \E m \in Managers :
        pc[m] = "stop_kill_wait" /\ sigs[cur[m]] = <<"TERM", "KILL">>

\* C5: once stop(i) has returned, the process of i has exited and i is not in
\* the registry.
C5_StoppedMeansExitedAndDeregistered ==
    \A i \in Insts :
        firstRet[i] # NoPath => proc[i] = "exited" /\ ~InRegistry(i)

C5_Witness ==
    \E i \in Insts :
        /\ firstRet[i] # NoPath /\ outcome[i] = "returned"
        /\ sigs[i] = <<"TERM", "KILL">>
        /\ \E j \in Insts : j # i /\ firstRet[j] # NoPath /\ sigs[j] = <<"TERM">>

\* C6: every stop() call returns, also when the process ignores SIGTERM, and
\* the loop that looks for the output file makes at most PollLimit checks.
C6_StopReturns ==
    /\ \A m \in Managers : InStop(m) ~> ~InStop(m)
    /\ [](\A m \in Managers : pc[m] = "stop_poll" => polls[m] < PollLimit)

C6_Witness ==
    \E m \in Managers :
        /\ pc[m] = "stop_poll" /\ polls[m] = PollLimit - 1
        /\ sigs[cur[m]] = <<"TERM", "KILL">>

\* C7: whatever stop(i) returns is the output database path of i, whether the
\* file exists or not, and the file is looked for only once the process has
\* exited.
C7_StopReturnsOutputPath ==
    /\ \A i \in Insts : firstRet[i] \in {NoPath, OutputDb(dir[i])}
    /\ \A i \in Insts : lastRet[i] \in {NoPath, OutputDb(dir[i])}
    /\ \A m \in Managers : pc[m] = "stop_poll" => proc[cur[m]] = "exited"

C7_Witness ==
    \E i \in Insts :
        /\ firstRet[i] = OutputDb(dir[i])
        /\ sigs[i] # <<>>
        /\ ~outExists[dir[i]]

\* C8: when the loop of stop_all() is over, the registry is empty and every
\* instance that was registered at the call has an exited process.
C8_StopAllStopsAll ==
    \A m \in Managers :
        (pc[m] = "all_next" /\ pending[m] = <<>>) =>
            /\ registry[m] = <<>>
            /\ \A i \in snap[m] : proc[i] = "exited" /\ firstRet[i] # NoPath

C8_Witness ==
    \E m \in Managers :
        /\ pc[m] = "all_next" /\ pending[m] = <<>>
        /\ \E i, j \in snap[m] : i # j /\ sigs[i] = <<>> /\ sigs[j] # <<>>

\* C9: two instances started without an explicit port, registered and running
\* at the same time, have different ports.
C9_DistinctPorts ==
    \A i, j \in Insts :
        (/\ i # j
         /\ InRegistry(i) /\ InRegistry(j)
         /\ Running(i) /\ Running(j)
         /\ reqPort[i] = NoPort /\ reqPort[j] = NoPort)
        => port[i] # port[j]

\* The lifecycle state of an instance, read off the manager: registered is
\* Running, whatever happened before.
Life(i) ==
    IF proc[i] = "none" THEN "New"
    ELSE IF InRegistry(i) /\ (firstRet[i] # NoPath \/ outcome[i] = "raised") THEN "Running"
    ELSE IF outcome[i] = "raised" THEN "Failed"
    ELSE IF firstRet[i] # NoPath THEN "Stopped"
    ELSE IF \E m \in Managers : cur[m] = i /\ InStop(m) /\ frame[m] # "start" THEN "Stopping"
    ELSE IF InRegistry(i) THEN "Running"
    ELSE IF \E m \in Managers : cur[m] = i /\ frame[m] = "start" THEN "Starting"
    ELSE "Lost"

LifeSteps ==
    {<<"New", "Starting">>, <<"Starting", "Running">>, <<"Starting", "Failed">>,
     <<"Running", "Stopping">>, <<"Stopping", "Stopped">>}

\* C10: an instance moves only Starting -> Running -> Stopping -> Stopped or
\* Starting -> Failed; a Failed instance has an exited process and was never
\* registered; a Stopped or Failed instance is never registered again.
C10_Lifecycle ==
    [][\A i \in Insts :
         /\ Life(i)' # Life(i) => <<Life(i), Life(i)'>> \in LifeSteps
         /\ Life(i)' = "Failed" => proc'[i] = "exited" /\ ~everReg'[i]]_vars

C10_Witness ==
    \E i, j \in Insts : Life(i) = "Stopped" /\ Life(j) = "Failed"

\* ------------------------------------------------------------ persistence
Killed(j) == \E k \in DOMAIN sigs[j] : sigs[j][k] = "KILL"

\* Instance i is a reader started on the output database of instance j.
ReaderOf(i, j) == proc[i] # "none" /\ source[i] = j

\* C11: the server writes its state only on checkpoint and on SIGTERM.  When
\* the process of an instance has exited on the SIGTERM of stop(), its output
\* database and every reader started on it hold the last value written,
\* checkpointed or not; when it has exited on SIGKILL, they hold the value of
\* the last completed checkpoint (no database exists if there was none).
C11_GracefulKeepsForcedLoses ==
    \A j \in Insts :
        /\ (proc[j] = "exited" /\ sigs[j] = <<"TERM">>) =>
              /\ outExists[dir[j]] /\ outVal[dir[j]] = mem[j]
              /\ \A i \in Insts : ReaderOf(i, j) => loaded[i] = mem[j]
        /\ (proc[j] = "exited" /\ outcome[j] = "returned" /\ Killed(j)) =>
              /\ outExists[dir[j]] = (ckpt[j] # NoVal)
              /\ outExists[dir[j]] => outVal[dir[j]] = ckpt[j]
              /\ \A i \in Insts : ReaderOf(i, j) => loaded[i] = ckpt[j]

\* Both halves happen: a writer wrote another value after its last
\* checkpoint and was killed, a reader was started on its database, written
\* to without any checkpoint and stopped gracefully.
C11_Witness ==
    \E i, j \in Insts :
        /\ ReaderOf(i, j) /\ Killed(j)
        /\ ckpt[j] \in Values /\ mem[j] # ckpt[j] /\ loaded[i] = ckpt[j]
        /\ sigs[i] = <<"TERM">> /\ firstRet[i] # NoPath
        /\ ckpt[i] = NoVal /\ mem[i] # loaded[i] /\ outVal[dir[i]] = mem[i]

EvalReturned == call = "eval" /\ cpc = "idle" /\ res[1] = "returned"

\* The accumulated response text of the call: ''.join(lines).
Response == Flatten(acc)

\* The value of the leftmost success match, the message of the leftmost
\* explicit error match.
SuccessValue(text) == Strip(Group(text, SuccessAt(text, SearchSuccess(text))))

ErrorMessage(text) == Strip(Group(text, ErrorAt(text, SearchError(text))))

C14_FaultsRaised ==
    /\ (call = "eval" /\ cpc = "idle" /\ fault) => res[1] = "raised"
    /\ (call = "connect" /\ cpc = "idle" /\ sock = "set" /\ ~connected)
           => res = Raised("ConnectionRefusedError")

\* ------------------------------------------------------------------ C15
\* A request line: text that ends with its only newline.
OneLine(text) ==
    /\ text # <<>>
    /\ \A k \in DOMAIN text : (text[k] = "\n") <=> (k = Len(text))

\* A terminating line of a response: it carries the result arrow or the
\* closing phrase of a traceback, or it is an error line with a brace-
\* delimited detail.
TerminatingLine(line) ==
    \/ \E k \in DOMAIN line : line[k] \in {"=>", "E"}
    \/ /\ line # <<>> /\ Head(line) = "**"
       /\ \E k \in DOMAIN line : line[k] = "{"
       /\ \E k \in DOMAIN line :
            /\ line[k] = "}"
            /\ \A l \in (k + 1)..Len(line) : IsWs(line[l])

\* What a step of an eval() call may do.
EvalStepOK ==
    /\ (cpc = "idle" /\ cpc' = "eval_read" /\ call' = "eval")
           => (sends' = 1 /\ OneLine(wire'))
    /\ (cpc = "eval_read" /\ call = "eval") =>
           /\ sends' = sends /\ wire' = wire
           /\ acc' # acc =>
                 /\ Len(acc') = Len(acc) + 1
                 /\ SubSeq(acc', 1, Len(acc)) = acc
                 /\ acc'[Len(acc')] \o Flatten(inbox') = Flatten(inbox)
                 /\ \A k \in 1..(Len(acc'[Len(acc')]) - 1) : acc'[Len(acc')][k] # "\n"
           /\ (cpc' = "idle" /\ res'[1] = "returned") =>
                 \/ inbox = <<>> /\ acc' = acc
                 \/ acc' # acc /\ TerminatingLine(acc'[Len(acc')])
           /\ cpc' = "eval_read" => \A k \in DOMAIN acc' : ~TerminatingLine(acc'[k])

\* C15: a client has one request outstanding at a time.  Each eval() sends
\* exactly one request line; it does not return before it has read a
\* terminating line or a read has come back empty; it reads nothing past the
\* first terminating line, so what the server sends after that line stays
\* unread for the next call.
C15_SingleOutstanding == [][EvalStepOK]_vars

\* An eval() returned on a terminating line and left unread what the server
\* had sent after it.
C15_Witness ==
    /\ EvalReturned
    /\ sends = 1 /\ OneLine(wire)
    /\ acc # <<>> /\ TerminatingLine(acc[Len(acc)])
    /\ inbox # <<>>

\* ------------------------------------------------------------------ C16
\* C16: an eval() whose response carries an explicit error line returns
\* (false, message) with a non-empty message; more generally no failing
\* eval() returns an empty message, an empty or blank response giving
\* "(no response)".
C16_MessageNonEmpty ==
    (EvalReturned /\ ~res[2]) => res[3] # <<>>

\* ------------------------------------------------------------------ C17
\* A checkpoint() has returned and nothing was called since.
CheckpointReturned == call = "checkpoint" /\ cpc = "idle" /\ res[1] = "returned"

\* C17: every checkpoint() call sends the persistence request dump_database()
\* and waits the grace period before it returns.
C17_AlwaysWaits ==
    CheckpointReturned =>
        /\ sends = 1
        /\ wire = <<";", "dump_database()", "\n">>
        /\ slept

\* ------------------------------------------------------------------ C18
\* The client connects and closes and does nothing else; the server at the
\* other end sends what it likes, for as long as it likes.
ConnectNext ==
    \/ \E listening \in BOOLEAN : Connect(listening)
    \/ ConnectDrain
    \/ Close
    \/ \E p \in ServerPieces : ServerSend(p)
    \/ ServerClose
    \/ ServerReset

\* The client keeps running the drain it is in; nothing obliges the server
\* to stop sending.
LiveConnectSpec == ClientInit /\ [][ConnectNext]_vars /\ WF_vars(ConnectDrain)

\* C18: connect() always returns after its banner drain, whether the server
\* sends no banner, a finite banner, or keeps sending.
C18_ConnectReturns == (cpc = "connect_drain") ~> (cpc = "idle")

\* ------------------------------------------------------------------ C19
\* What a step may do once close() was called, and what close() may do.
CloseStepOK ==
    /\ (closes' # closes /\ closes' # 0) =>
           /\ sock' = "none"
           /\ ~IsConnected'
           /\ res' = res
           /\ sock = "none" =>
                 UNCHANGED <<trace, sock, connected, cpc, call, acc, buf, res, wire, sends,
                             slept, peer, inbox, held, fault, acc0, res0, stale>>
    /\ (closes >= 1 /\ closes' = closes) =>
           /\ ~IsConnected'
           /\ wire' = wire
           /\ (res' # res \/ call' # call) =>
                 /\ call' \in {"eval", "send", "checkpoint", "authenticate"}
                 /\ res' = Raised("ConnectionError")
                 /\ sends' = 0

\* C19: close() may be called any number of times.  The first call releases
\* the socket, every later call changes nothing, none raises; after a close()
\* is_connected() is false, and a send() or an eval() raises a connection
\* error and writes nothing.
C19_CloseIdempotent == [][CloseStepOK]_vars

\* An eval() made after two close() calls raised the connection error.
C19_Witness ==
    /\ closes = 2
    /\ call = "eval"
    /\ res = Raised("ConnectionError")
    /\ sends = 0

LoginPieces ==
    { <<"***", " ", "Connected", " ", "***">>,
      <<"***", " ", "x">>,
      <<"x">>,
      <<"\n">> }

\* A client that connects, logs in and closes, and its server.
AuthNext ==
    \/ \E listening \in BOOLEAN : Connect(listening)
    \/ ConnectDrain
    \/ \E identity \in Identities : Authenticate(identity)
    \/ AuthDrain
    \/ Close
    \/ \E p \in LoginPieces : ServerSend(p)
    \/ ServerClose
    \/ ServerReset

AuthSpec == ClientInit /\ [][AuthNext]_vars

\* An authenticate() has returned and nothing was called since; buf is the
\* response it read.
AuthReturned == call = "authenticate" /\ cpc = "idle" /\ res[1] = "returned"

\* The failure marker is in the text; the text says "connected", in
\* whatever letter case.
MarkerIn(text) == \E k \in DOMAIN text : text[k] = "***"

SaysConnected(text) == \E k \in DOMAIN text : text[k] \in {"connected", "Connected"}

\* C21 as stated: authenticate() sends one login command, returns true when
\* the marker "***" is absent from the immediate response and false whenever
\* the marker is present.
C21_FalseWheneverMarker ==
    AuthReturned =>
        /\ sends = 1
        /\ res[2] <=> ~MarkerIn(buf)

\* C21 amended: authenticate() sends one login command, "connect <identity>"
\* on a line; it returns true when the marker "***" is absent from the
\* immediate response or the response says "connected" in any letter case,
\* and false only when the marker is present and "connected" is not.
C21_MarkerUnlessConnected ==
    AuthReturned =>
        /\ sends = 1
        /\ \E identity \in Identities : wire = <<"connect", " ", identity, "\n">>
        /\ res[2] <=> (~MarkerIn(buf) \/ SaysConnected(buf))

\* An authenticate() returned true on a response that holds the marker.
C21_Witness ==
    /\ AuthReturned
    /\ MarkerIn(buf)
    /\ res[2]

\* ------------------------------------------------------------------ C22
\* C22: start(database, emergency_mode=True) launches the server in the
\* headless mode and returns an instance whose process runs and whose port
\* is 0: the call returns, it does not raise.
C22_EmergencyStarts ==
    \A m \in Managers : emergency[m] \in {"none", "returned"}

\* ------------------------------------------------------------------ C23
\* What a server that does not stop writes: text, line ends, and now and
\* then a success line.
StreamPieces ==
    { <<"x">>,
      <<"\n">>,
      <<"#", "1", ":", " ", "=>", " ", "x">> }

\* The server writes a piece; only the socket buffer limits it.
ServerStream(p) ==
    /\ peer = "open"
    /\ Len(inbox) < MaxPieces
    /\ inbox' = Append(inbox, p)
    /\ UNCHANGED <<trace, sock, connected, cpc, call, acc, acc0, buf, res, res0, wire,
                   sends, slept, peer, held, fault, closes, stale, srvVars>>

\* One _read_line() of the loop of eval() under such a server.  The loop
\* decides on the line just read alone (`if not line`, the completion
\* markers), so this step follows the control of the loop and keeps, of the
\* lines read, the last one; the result, which is classified from all of
\* them, is left open.
EvalSkim ==
    /\ cpc = "eval_read"
    /\ IF peer = "reset"
       THEN /\ res' = Raised("ConnectionResetError")
            /\ res0' = res'
            /\ cpc' = "idle"
            /\ fault' = TRUE
            /\ UNCHANGED <<inbox, acc, acc0>>
       ELSE LET n == LineTaken(inbox)
                raw == Flatten(SubSeq(inbox, 1, n))
                line == Traced(trace, raw)
                line0 == Traced(FALSE, raw)
                kept == IF line = <<>> THEN acc ELSE <<line>>
                kept0 == IF line0 = <<>> THEN acc0 ELSE <<line0>>
                done == line = <<>> \/ Terminates(line)
            IN /\ inbox' = SubSeq(inbox, n + 1, Len(inbox))
               /\ acc' = kept
               /\ acc0' = kept0
               /\ fault' = (fault \/ (FirstNewline(inbox) = 0 /\ peer = "closed"
                                         /\ ~Terminates(line)))
               /\ IF ~done
                  THEN UNCHANGED <<cpc, res, res0>>
                  ELSE /\ cpc' = "idle"
                       /\ \E ok \in BOOLEAN : res' = Returned(ok, <<>>)
                       /\ res0' = res'
    /\ UNCHANGED <<trace, sock, connected, call, buf, wire, sends, slept, peer, held,
                   closes, stale, srvVars>>

StreamNext ==
    \/ \E listening \in BOOLEAN : Connect(listening)
    \/ ConnectDrain
    \/ \E e \in Exprs : Eval(e)
    \/ EvalSkim
    \/ Close
    \/ \E p \in StreamPieces : ServerStream(p)
    \/ ServerClose
    \/ ServerReset

\* The client keeps running its read loop; nothing obliges the server to
\* stop sending.
LiveEvalSpec == ClientInit /\ [][StreamNext]_vars /\ WF_vars(EvalSkim)

\* C23: eval() always returns: its read loop ends at the first terminating
\* line or at a quiet read, whatever the server sends, also when the server
\* keeps sending lines that do not terminate.
C23_EvalReturns == (cpc = "eval_read") ~> (cpc = "idle")

\* ------------------------------------------------------------------ C24
\* The positions of text at which a line ends: its newlines, and its end.
LineEnds(text) == {k \in DOMAIN text : text[k] = "\n" \/ k = Len(text)}

\* The line of text that ends at k.
LineAt(text, k) ==
    LET starts == {j \in 1..k : j = 1 \/ text[j - 1] = "\n"}
    IN SubSeq(text, CHOOSE j \in starts : \A l \in starts : l <= j, k)

\* What eval() returns when text is all there before its first read: the
\* loop takes whole lines up to the first one with a completion marker.
OneShot(text) ==
    LET ends == {k \in LineEnds(text) : Terminates(LineAt(text, k))}
    IN Classify(SubSeq(text, 1, IF ends = {} THEN Len(text) ELSE FirstMatch(ends)))

\* All the server has sent since the request of the current call.
SentSince == Flatten(acc) \o Flatten(inbox)

\* C24: for a given response text eval() returns the same (success, value or
\* message) whether the text arrives in one piece or in fragments with read
\* timeouts between them: the result of a call that started on an empty
\* input and read a first fragment is the one-piece result of all the
\* server has sent since.
C24_SameUnderFragments ==
    (EvalReturned /\ stale = 0 /\ acc # <<>>) =>
        <<res[2], res[3]>> = OneShot(SentSince)

\* ------------------------------------------------------------------ C25
\* C25: the result of an eval() is computed only from what the server sent
\* in answer to its own request: nothing that was waiting unread when the
\* request was written (a late answer to an earlier call, lines left after
\* an early exit of its loop) is among the lines the call has read.
C25_OwnAnswerOnly ==
    EvalReturned => (stale = 0 \/ held = 0)

\* ------------------------------------------------------------------ C26
\* Some process accepts connections on port p.
Accepting(p) == \E k \in Insts : proc[k] = "listening" /\ bound[k] = p

\* What holds at a step in which start() returns instance i or puts it in
\* the registry of its manager.
StartStepOK ==
    \A i \in Insts :
        (\/ outcome'[i] = "returned" /\ outcome[i] # "returned"
         \/ \E m \in Managers : i \in SeqToSet(registry'[m]) \ SeqToSet(registry[m]))
        => /\ pc[owner[i]] = "wait_ready" /\ cur[owner[i]] = i
           /\ port[i] # NoPort
           /\ port[i] = logListen[dir[i]]
           /\ Accepting(port[i])
           /\ port'[i] = port[i]
           /\ outcome'[i] = "returned"
           /\ i \in SeqToSet(registry'[owner[i]])

\* C26: start() returns an instance, and puts it in the live registry, only
\* after it has read a listening-port line from the server log and then
\* completed a TCP connect to that port; the port stored in the instance is
\* the port of that log line.
C26_ReadyBeforeReturn == [][StartStepOK]_vars

\* start() has returned a registered instance with the port of the log of
\* its directory.
C26_Witness ==
    \E i \in Insts :
        /\ outcome[i] = "returned"
        /\ i \in SeqToSet(registry[owner[i]])
        /\ port[i] # NoPort /\ port[i] = logListen[dir[i]]
        /\ proc[i] = "listening"

\* ------------------------------------------------------------------ C27
\* C27: the port stored in an instance that start() returned is a port the
\* instance's own server process is listening on: it is never taken from a
\* log line written by another or an earlier process, and the readiness
\* connect is never answered by a different server.
C27_OwnPort ==
    \A i \in Insts :
        (outcome[i] = "returned" /\ Running(i))
        => proc[i] = "listening" /\ bound[i] = port[i]

\* ------------------------------------------------------------------ C28
\* The instances start() has launched so far.
Launched == {i \in Insts : proc[i] # "none"}

\* C28: every start(), with or without an explicit work_dir, gives its
\* instance a directory of its own: no two instances share a directory, and
\* so none share the input copy, the output path or the log file in it.
C28_OwnDirectory ==
    \A i, j \in Launched :
        i # j => /\ dir[i] # dir[j]
                 /\ InputDb(dir[i]) # InputDb(dir[j])
                 /\ OutputDb(dir[i]) # OutputDb(dir[j])

\* ------------------------------------------------------------------ C29
\* The processes manager m has spawned that are still running.
Alive(m) == {i \in Insts : owner[i] = m /\ Running(i)}

\* Outside every call of manager m its running processes are registered, and
\* when the loop of stop_all() is over none is left.
NoStrayProcess ==
    \A m \in Managers :
        /\ pc[m] = "idle" => Alive(m) \subseteq SeqToSet(registry[m])
        /\ (pc[m] = "all_next" /\ pending[m] = <<>>) => Alive(m) = {}

\* A process is spawned, unregistered, by the first step of start() only,
\* and an instance leaves the registry in the first step of stop() only.
SpawnAndDeregisterOK ==
    \A m \in Managers :
        /\ \A i \in Insts :
              (proc[i] = "none" /\ proc'[i] # "none" /\ owner'[i] = m)
              => /\ pc[m] = "idle" /\ pc'[m] = "wait_listen" /\ cur'[m] = i
                 /\ i \notin SeqToSet(registry'[m])
        /\ SeqToSet(registry[m]) \ SeqToSet(registry'[m]) # {}
              => /\ pc[m] = "stop_begin"
                 /\ SeqToSet(registry[m]) \ SeqToSet(registry'[m]) = {cur[m]}

\* C29: between the calls of a manager every process it spawned that is
\* still running belongs to a registered instance (a process is spawned
\* unregistered only inside start(), stop() is the only operation that
\* deregisters), and stop_all() leaves no process of the manager running.
C29_NoStrayProcess == []NoStrayProcess /\ [][SpawnAndDeregisterOK]_vars

\* A manager between calls with a running registered instance next to one
\* whose start() failed and whose process was signalled and has exited.
C29_Witness ==
    \E m \in Managers :
        /\ pc[m] = "idle"
        /\ \E i, j \in Insts :
              /\ owner[i] = m /\ owner[j] = m
              /\ Running(i) /\ i \in SeqToSet(registry[m])
              /\ outcome[j] = "raised" /\ sigs[j] # <<>> /\ proc[j] = "exited"

\* ------------------------------------------------------------------ C30
\* start(instance.output_db, work_dir=wd) on the output database of an
\* instance whose process has exited, in the default directory or in one the
\* caller names.
StartOnIn(m, j, wd) ==
    /\ outcome[j] = "returned"
    /\ proc[j] = "exited"
    /\ FileExists(DbOf(j))
    /\ Launch(m, NoPort, wd, FileVal(DbOf(j)), j)

\* The scenarios of the persistence tests with the work_dir parameter of
\* start() in use.
ReuseNext ==
    \/ \E m \in Managers, wd \in {NoDir} \cup ExplicitDirs : Start(m, NoPort, wd)
    \/ \E m \in Managers, j \in Insts, wd \in {NoDir} \cup ExplicitDirs : StartOnIn(m, j, wd)
    \/ \E m \in Managers, i \in Insts : Stop(m, i)
    \/ \E m \in Managers : StopAll(m)
    \/ \E m \in Managers, i \in Insts : Sigkill(m, i)
    \/ \E m \in Managers : SigkillWait(m)
    \/ \E m \in Managers : MgrStep(m)
    \/ \E i \in Insts, v \in Values : Write(i, v)
    \/ \E i \in Insts : Checkpoint(i)
    \/ \E i \in Insts : ProcBind(i)
    \/ \E i \in Insts : ProcTermExit(i)
    \/ \E i \in Insts : ProcKillExit(i)

ReuseSpec == Init /\ [][ReuseNext]_vars

\* C30: no sequence of start(), eval(), checkpoint() and stop() modifies the
\* database file passed to start(): as long as the instance started on the
\* output database of another exists, that file holds what was loaded.
C30_DatabaseUntouched ==
    \A i \in Insts :
        source[i] # NoInst => FileVal(DbOf(source[i])) = loaded[i]

====
